---- MODULE Spec2Model ----
(***************************************************************************)
(* A model of hawkauthlib/utils.py: the Authorization header parser, the   *)
(* two Hawk canonical strings and the timing-safe string comparison.       *)
(*                                                                         *)
(* A Python str is a sequence of one-character strings.  A Python value    *)
(* that may be None, a str or a dict is a record tagged with its type.     *)
(* A call either returns a value or raises an exception (Return, Raise).   *)
(***************************************************************************)
EXTENDS Integers, Sequences, FiniteSets, TLC

\* request: the request object; args: the other arguments of the call;
\* pc: where the call stands; locals: the local variables of a running
\* loop; result: how the call ended.  input records how the header of the
\* request was written down: as a list of name=value pairs, or freely.
VARIABLES request, args, pc, locals, result, input

vars == <<request, args, pc, locals, result, input>>

(***************************************************************************)
(* Python values and call outcomes.                                        *)
(***************************************************************************)
None == [type |-> "NoneType"]

PyStr(s) == [type |-> "str", v |-> s]

PyDict(d) == [type |-> "dict", v |-> d]

IsNone(x) == x.type = "NoneType"

Return(x) == [kind |-> "return", value |-> x]

Raise(e) == [kind |-> "raise", value |-> [type |-> e]]

Raised(o, e) == o.kind = "raise" /\ o.value.type = e

EmptyDict == [k \in {} |-> <<>>]

\* d[k] = v on a dict.
DictSet(d, k, v) == [x \in DOMAIN d \cup {k} |-> IF x = k THEN v ELSE d[x]]

\* d.get(k, dflt) on a dict.
DictGet(d, k, dflt) == IF k \in DOMAIN d THEN d[k] ELSE dflt

(***************************************************************************)
(* Characters.                                                             *)
(***************************************************************************)
LowerAlphabet ==
    <<"a", "b", "c", "d", "e", "f", "g", "h", "i", "j", "k", "l", "m",
      "n", "o", "p", "q", "r", "s", "t", "u", "v", "w", "x", "y", "z">>

UpperAlphabet ==
    <<"A", "B", "C", "D", "E", "F", "G", "H", "I", "J", "K", "L", "M",
      "N", "O", "P", "Q", "R", "S", "T", "U", "V", "W", "X", "Y", "Z">>

LowerLetters == {LowerAlphabet[i] : i \in DOMAIN LowerAlphabet}

UpperLetters == {UpperAlphabet[i] : i \in DOMAIN UpperAlphabet}

DigitAlphabet == <<"0", "1", "2", "3", "4", "5", "6", "7", "8", "9">>

Digits == {DigitAlphabet[i] : i \in DOMAIN DigitAlphabet}

\* The class [a-zA-Z0-9_\-] of _AUTH_PARAM_RE.
TokenChars == LowerLetters \cup UpperLetters \cup Digits \cup {"_", "-"}

\* The class \s, which is also what str.split(None) and str.strip() take
\* for whitespace.
Whitespace == {" ", "\t", "\n", "\r", "\f"}

\* What "." matches: any character but a line break.
DotChar(c) == c # "\n"

QUOTE == "\""

BACKSLASH == "\\"

(***************************************************************************)
(* str methods.                                                            *)
(***************************************************************************)
\* The place of c in alphabet a.
PlaceIn(a, c) == CHOOSE i \in DOMAIN a : a[i] = c

LowerChar(c) ==
    IF c \in UpperLetters THEN LowerAlphabet[PlaceIn(UpperAlphabet, c)] ELSE c

UpperChar(c) ==
    IF c \in LowerLetters THEN UpperAlphabet[PlaceIn(LowerAlphabet, c)] ELSE c

\* s.lower()
Lower(s) == [i \in 1..Len(s) |-> LowerChar(s[i])]

\* s.upper()
Upper(s) == [i \in 1..Len(s) |-> UpperChar(s[i])]

\* s[i:j] with 1-based, inclusive bounds.
Slice(s, i, j) == IF j < i THEN <<>> ELSE SubSeq(s, i, j)

AllIn(s, S) == \A i \in 1..Len(s) : s[i] \in S

\* The first index >= i whose character is (in = TRUE) or is not
\* (in = FALSE) whitespace; Len(s) + 1 when there is none.
RECURSIVE Scan(_, _, _)
Scan(s, i, in) ==
    IF i > Len(s) THEN Len(s) + 1
    ELSE IF (s[i] \in Whitespace) = in THEN i
    ELSE Scan(s, i + 1, in)

\* The last index <= j whose character is not whitespace; 0 when none.
RECURSIVE ScanBack(_, _)
ScanBack(s, j) ==
    IF j < 1 THEN 0
    ELSE IF s[j] \notin Whitespace THEN j
    ELSE ScanBack(s, j - 1)

\* s.strip()
Strip(s) == Slice(s, Scan(s, 1, FALSE), ScanBack(s, Len(s)))

\* s.split(None, 1): the first word and, when something other than
\* whitespace follows it, the rest of s from there on.
SplitNone1(s) ==
    LET i == Scan(s, 1, FALSE)
        j == Scan(s, i, TRUE)
        k == Scan(s, j, FALSE)
    IN  IF i > Len(s) THEN <<>>
        ELSE IF k > Len(s) THEN <<Slice(s, i, j - 1)>>
        ELSE <<Slice(s, i, j - 1), Slice(s, k, Len(s))>>

\* The first index >= i with s[i] = c; Len(s) + 1 when there is none.
RECURSIVE Find(_, _, _)
Find(s, c, i) ==
    IF i > Len(s) THEN Len(s) + 1
    ELSE IF s[i] = c THEN i
    ELSE Find(s, c, i + 1)

\* s.split(c): every piece between two occurrences of c, empty ones too.
RECURSIVE Split(_, _)
Split(s, c) ==
    LET i == Find(s, c, 1)
    IN  IF i > Len(s) THEN <<s>>
        ELSE <<Slice(s, 1, i - 1)>> \o Split(Slice(s, i + 1, Len(s)), c)

\* s.split(c, 1)
Split1(s, c) ==
    LET i == Find(s, c, 1)
    IN  IF i > Len(s) THEN <<s>>
        ELSE <<Slice(s, 1, i - 1), Slice(s, i + 1, Len(s))>>

(***************************************************************************)
(* The regular expressions of the header parser.                           *)
(***************************************************************************)
\* Whether v is one of the three forms _AUTH_PARAM_RE gives a value: an
\* unquoted token, the empty quoted string, or a quoted string
\* ".*[^\\]" whose closing quote does not follow a backslash.
AuthParamValue(v) ==
    \/ (Len(v) >= 1 /\ AllIn(v, TokenChars))
    \/ v = <<QUOTE, QUOTE>>
    \/ /\ Len(v) >= 3
       /\ v[1] = QUOTE
       /\ v[Len(v)] = QUOTE
       /\ v[Len(v) - 1] # BACKSLASH
       /\ \A i \in 2..(Len(v) - 2) : DotChar(v[i])

\* _AUTH_PARAM_RE.match(s): ^\s*<name>=<value>\s*$.  A name has no "=", so
\* the "=" that ends it is the first of s; the name starts at the first
\* character that is not whitespace and the value ends at the last.
AUTH_PARAM_RE_match(s) ==
    LET t == Strip(s)
        e == Find(t, "=", 1)
    IN  /\ e >= 2
        /\ e <= Len(t)
        /\ AllIn(Slice(t, 1, e - 1), TokenChars)
        /\ AuthParamValue(Slice(t, e + 1, Len(t)))

\* _UNESC_QUOTE_RE.search(v): (^")|([^\\]")
UNESC_QUOTE_RE_search(v) ==
    \/ (Len(v) >= 1 /\ v[1] = QUOTE)
    \/ \E i \in 1..(Len(v) - 1) : v[i] # BACKSLASH /\ v[i + 1] = QUOTE

\* _ESCAPED_CHAR.sub(lambda m: m.group(0)[1], v): every match of \\. from
\* left to right, none overlapping another, becomes its second character.
RECURSIVE ESCAPED_CHAR_sub(_)
ESCAPED_CHAR_sub(v) ==
    IF v = <<>> THEN <<>>
    ELSE IF v[1] = BACKSLASH /\ Len(v) >= 2 /\ DotChar(v[2])
         THEN <<v[2]>> \o ESCAPED_CHAR_sub(Slice(v, 3, Len(v)))
         ELSE <<v[1]>> \o ESCAPED_CHAR_sub(Tail(v))

(***************************************************************************)
(* parse_authz_header                                                      *)
(***************************************************************************)
HTTP_AUTHORIZATION == "HTTP_AUTHORIZATION"

\* The key the scheme name is stored under.
SchemeKey == <<"s", "c", "h", "e", "m", "e">>

\* StitchPairs without the stitching: every piece is a pair of its own.
StitchPairs_NeverStitch(pieces, kvpairs) == kvpairs \o pieces

\* The loop over kvpairs_str.split(","): a piece starts a new pair when
\* there is none yet or the last one is a well-formed pair, and is stitched
\* back onto the last one otherwise.
RECURSIVE StitchPairs(_, _)
StitchPairs(pieces, kvpairs) ==
    IF pieces = <<>> THEN kvpairs
    ELSE LET kvpair == Head(pieces)
             n == Len(kvpairs)
         IN  IF n = 0 \/ AUTH_PARAM_RE_match(kvpairs[n])
             THEN StitchPairs(Tail(pieces), Append(kvpairs, kvpair))
             ELSE StitchPairs(Tail(pieces),
                      [kvpairs EXCEPT ![n] = @ \o <<",">> \o kvpair])

\* A value as stored: a quoted one loses its quotes and its backslash
\* escapes, and is refused when _UNESC_QUOTE_RE finds a quote in it.
ParamValue(value) ==
    IF Len(value) >= 1 /\ value[1] = QUOTE
    THEN LET inner == Slice(value, 2, Len(value) - 1)
         IN  IF UNESC_QUOTE_RE_search(inner)
             THEN Raise("ValueError")
             ELSE Return(ESCAPED_CHAR_sub(inner))
    ELSE Return(value)

\* params[key] = value
StoreParam(params, key, value) == DictSet(params, key, value)

\* The loop over kvpairs that fills params.
RECURSIVE BuildParams(_, _)
BuildParams(kvpairs, params) ==
    IF kvpairs = <<>> THEN Return(PyDict(params))
    ELSE LET kv == Split1(Strip(Head(kvpairs)), "=")
         IN  IF Len(kv) # 2 THEN Raise("ValueError")
             ELSE LET value == ParamValue(kv[2])
                  IN  IF value.kind = "raise" THEN value
                      ELSE BuildParams(Tail(kvpairs),
                               StoreParam(params, kv[1], value.value))

\* scheme, kvpairs_str = authz.split(None, 1)
SplitScheme(authz) == SplitNone1(authz)

\* The body of the try block.
ParseBody(req) ==
    LET authz == DictGet(req.environ, HTTP_AUTHORIZATION, None)
    IN  IF IsNone(authz) THEN Raise("ValueError")
        ELSE LET parts == SplitScheme(authz.v)
             IN  IF Len(parts) # 2 THEN Raise("ValueError")
                 ELSE LET scheme == parts[1]
                          kvpairs_str == parts[2]
                          kvpairs ==
                              IF kvpairs_str # <<>>
                              THEN StitchPairs(Split(kvpairs_str, ","), <<>>)
                              ELSE <<>>
                      IN  IF /\ kvpairs_str # <<>>
                             /\ ~AUTH_PARAM_RE_match(kvpairs[Len(kvpairs)])
                          THEN Raise("ValueError")
                          ELSE BuildParams(kvpairs,
                                   DictSet(EmptyDict, SchemeKey, scheme))

\* except ValueError: return default[0] when a default was passed.
OnValueError(outcome, default) ==
    IF Raised(outcome, "ValueError") /\ default # <<>>
    THEN Return(default[1])
    ELSE outcome

\* parse_authz_header(request, *default)
parse_authz_header(req, default) == OnValueError(ParseBody(req), default)

(***************************************************************************)
(* The headers the parser is run on.  A header value has no line break     *)
(* (an HTTP field value cannot hold one).  Two families: every string of   *)
(* at most MaxRawLen characters over RawChars, well-formed or not; and     *)
(* headers written pair by pair, <scheme> SP p1 <sep> p2 ..., where a pair *)
(* is name=token or name="content" with any content of at most MaxValLen   *)
(* characters over ContentChars.  Of the pairs of one header at most one   *)
(* is not among SimplePairs.                                               *)
(***************************************************************************)
MaxRawLen == 5

MaxValLen == 3

MaxPairs == 2

Strs(S, n) == UNION {[1..k -> S] : k \in 0..n}

RawChars == {"a", "=", QUOTE, BACKSLASH, ",", " "}

ContentChars == {"a", "=", QUOTE, BACKSLASH, ","}

Keys == {<<"a">>, SchemeKey}

Pair(k, q, t) == [key |-> k, quoted |-> q, text |-> t]

Pairs ==
    {Pair(k, FALSE, <<"a">>) : k \in Keys}
        \cup {Pair(k, TRUE, t) : k \in Keys, t \in Strs(ContentChars, MaxValLen)}

SimplePairs ==
    {Pair(<<"a">>, FALSE, <<"a">>), Pair(<<"a">>, TRUE, <<>>),
     Pair(<<"b">>, TRUE, <<",">>), Pair(SchemeKey, FALSE, <<"a">>)}

Seps == {<<",">>, <<",", " ">>}

SchemeName == <<"H", "a", "w", "k">>

\* A pair as it stands in the header.
PairText(p) ==
    p.key \o <<"=">> \o
        (IF p.quoted THEN <<QUOTE>> \o p.text \o <<QUOTE>> ELSE p.text)

RECURSIVE JoinPairs(_, _)
JoinPairs(ps, sep) ==
    IF Len(ps) = 1 THEN PairText(ps[1])
    ELSE PairText(ps[1]) \o sep \o JoinPairs(Tail(ps), sep)

HeaderText(scheme, ps, sep) == scheme \o <<" ">> \o JoinPairs(ps, sep)

Defaults == {<<>>, <<None>>, <<PyDict(EmptyDict)>>}

Environ(h) == [k \in {HTTP_AUTHORIZATION} |-> PyStr(h)]

NoInput == [kind |-> "none", scheme |-> <<>>, pairs |-> <<>>]

InitParse ==
    /\ pc = "call"
    /\ locals = <<>>
    /\ result = [kind |-> "none", value |-> None]
    /\ args \in {[default |-> d] : d \in Defaults}
    /\ \/ /\ request = [environ |-> EmptyDict]
          /\ input = NoInput
       \/ \E k \in 0..MaxRawLen : \E h \in [1..k -> RawChars] :
             /\ request = [environ |-> Environ(h)]
             /\ input = [kind |-> "raw", scheme |-> <<>>, pairs |-> <<>>]
       \/ \E n \in 1..MaxPairs : \E simple \in [1..n -> SimplePairs] :
             \E i \in 1..n, p \in Pairs, sep \in Seps :
                LET ps == [simple EXCEPT ![i] = p]
                IN  /\ request =
                           [environ |-> Environ(HeaderText(SchemeName, ps, sep))]
                    /\ input =
                           [kind |-> "pairs", scheme |-> SchemeName, pairs |-> ps]

\* The call parse_authz_header(request, *default).
Parse ==
    /\ pc = "call"
    /\ result' = parse_authz_header(request, args.default)
    /\ pc' = "done"
    /\ UNCHANGED <<request, args, locals, input>>

(***************************************************************************)
(* Writing a mapping back as a header: the scheme entry as the scheme      *)
(* token, every other entry as key="value" with each backslash and quote   *)
(* of the value behind a backslash, the entries joined by commas.          *)
(***************************************************************************)
RECURSIVE EscapeValue(_)
EscapeValue(v) ==
    IF v = <<>> THEN <<>>
    ELSE (IF v[1] \in {BACKSLASH, QUOTE} THEN <<BACKSLASH, v[1]>> ELSE <<v[1]>>)
             \o EscapeValue(Tail(v))

RECURSIVE JoinEntries(_, _)
JoinEntries(d, order) ==
    IF order = <<>> THEN <<>>
    ELSE Head(order) \o <<"=", QUOTE>> \o EscapeValue(d[Head(order)]) \o <<QUOTE>>
             \o (IF Len(order) > 1 THEN <<",">> ELSE <<>>)
             \o JoinEntries(d, Tail(order))

Serialize(d, order) ==
    d[SchemeKey] \o (IF order = <<>> THEN <<>> ELSE <<" ">>) \o JoinEntries(d, order)

\* The orders the entries of d other than the scheme can be written in.
Orders(d) ==
    LET ks == DOMAIN d \ {SchemeKey}
    IN  {o \in [1..Cardinality(ks) -> ks] :
            \A i, j \in 1..Cardinality(ks) : o[i] = o[j] => i = j}

\* A second call of parse_authz_header, on the header written back from
\* the mapping M the first call returned.
Reparse ==
    /\ pc = "done"
    /\ result.kind = "return"
    /\ result.value.type = "dict"
    /\ SchemeKey \in DOMAIN result.value.v
    /\ \E order \in Orders(result.value.v) :
          /\ request' = [environ |-> Environ(Serialize(result.value.v, order))]
          /\ result' = parse_authz_header(request', <<>>)
    /\ locals' = [M |-> result.value.v]
    /\ args' = [default |-> <<>>]
    /\ pc' = "reparsed"
    /\ UNCHANGED input

NextParse == Parse \/ Reparse

SpecParse == InitParse /\ [][NextParse]_vars

(***************************************************************************)
(* get_normalized_request_string                                           *)
(***************************************************************************)
\* The last index of c in s at or before i; 0 when there is none.
RECURSIVE FindLast(_, _, _)
FindLast(s, c, i) ==
    IF i < 1 THEN 0
    ELSE IF s[i] = c THEN i
    ELSE FindLast(s, c, i - 1)

\* s.rsplit(c, 1)
RSplit1(s, c) ==
    LET i == FindLast(s, c, Len(s))
    IN  IF i = 0 THEN <<s>>
        ELSE <<Slice(s, 1, i - 1), Slice(s, i + 1, Len(s))>>

\* sep.join(bits)
RECURSIVE Join(_, _)
Join(bits, sep) ==
    IF bits = <<>> THEN <<>>
    ELSE IF Len(bits) = 1 THEN bits[1]
    ELSE bits[1] \o sep \o Join(Tail(bits), sep)

NL == <<"\n">>

HeaderTag == <<"h", "a", "w", "k", ".", "1", ".", "h", "e", "a", "d", "e", "r">>

PayloadTag == <<"h", "a", "w", "k", ".", "1", ".", "p", "a", "y", "l", "o", "a", "d">>

TsKey == <<"t", "s">>

NonceKey == <<"n", "o", "n", "c", "e">>

HashKey == <<"h", "a", "s", "h">>

ExtKey == <<"e", "x", "t">>

Http == <<"h", "t", "t", "p">>

Https == <<"h", "t", "t", "p", "s">>

Port80 == <<"8", "0">>

Port443 == <<"4", "4", "3">>

\* The default port of a scheme, for a host that names none.
DefaultPort(scheme) ==
    IF scheme = Http THEN Return(Port80)
    ELSE IF scheme = Https THEN Return(Port443)
    ELSE Raise("ValueError")

\* host, port = request.host.rsplit(":", 1), and on the ValueError of a
\* host that does not split in two, the whole host and the default port.
HostAndPort(req) ==
    LET parts == RSplit1(req.host, ":")
    IN  IF Len(parts) = 2 THEN Return(parts)
        ELSE LET port == DefaultPort(req.scheme)
             IN  IF port.kind = "raise" THEN port
                 ELSE Return(<<req.host, port.value>>)

\* HashField with a server hash of "" taken for none.
HashField_EmptyIsNone(params, server_hash) ==
    IF IsNone(server_hash) \/ server_hash.v = <<>>
    THEN DictGet(params, HashKey, <<>>)
    ELSE server_hash.v

\* The hash line: the server's hash when one is given, params.get("hash", "")
\* otherwise.
HashField(params, server_hash) ==
    IF IsNone(server_hash)
    THEN DictGet(params, HashKey, <<>>)
    ELSE server_hash.v

\* params as given, or parsed from the request with a default of {}.
ParamsOf(req, params) ==
    IF IsNone(params)
    THEN parse_authz_header(req, <<PyDict(EmptyDict)>>).value.v
    ELSE params.v

\* The lines of the string, in order, the last one empty.
RequestBits(req, params, hostport, server_hash) ==
    <<HeaderTag, params[TsKey], params[NonceKey], Upper(req.method),
      req.path_qs, Lower(hostport[1]), hostport[2],
      HashField(params, server_hash), DictGet(params, ExtKey, <<>>), <<>>>>

\* get_normalized_request_string(request, params, server_hash)
get_normalized_request_string(req, params, server_hash) ==
    LET ps == ParamsOf(req, params)
    IN  IF TsKey \notin DOMAIN ps \/ NonceKey \notin DOMAIN ps
        THEN Raise("KeyError")
        ELSE LET hostport == HostAndPort(req)
             IN  IF hostport.kind = "raise" THEN hostport
                 ELSE Return(PyStr(Join(
                          RequestBits(req, ps, hostport.value, server_hash), NL)))

(***************************************************************************)
(* The requests the request string is built for: every host of at most     *)
(* MaxHostLen characters over HostChars, three schemes, and parameters     *)
(* either given as a mapping or left to be parsed from the header.         *)
(***************************************************************************)
MaxHostLen == 3

HostChars == {"a", "B", ":", "8"}

Methods == {<<"g", "e", "t">>, <<"P", "o", "S", "T">>}

Paths == {<<"/", "R", "?", "a", "=", "1">>, <<"/">>}

Schemes == {Http, Https, <<"f", "t", "p">>}

OptionalStrs == {None, PyStr(<<>>), PyStr(<<"x", "Y">>)}

\* A mapping with the entries of m whose value is not None.
DictOf(m) == [k \in {x \in DOMAIN m : ~IsNone(m[x])} |-> m[k].v]

ParamMaps ==
    {DictOf([x \in {TsKey, NonceKey, HashKey, ExtKey} |->
                 IF x = TsKey THEN ts ELSE IF x = NonceKey THEN nonce
                 ELSE IF x = HashKey THEN hash ELSE ext]) :
        ts \in {None, PyStr(<<"1", "2">>)}, nonce \in {None, PyStr(<<"j", "4">>)},
        hash \in OptionalStrs, ext \in OptionalStrs}

\* Header values for the calls that pass no params.
ParamHeaders ==
    {HeaderText(SchemeName, ps, <<",", " ">>) :
        ps \in {<<Pair(TsKey, TRUE, <<"1", "2">>), Pair(NonceKey, FALSE, <<"j", "4">>)>>,
                <<Pair(TsKey, FALSE, <<"1">>), Pair(NonceKey, FALSE, <<"j">>),
                  Pair(HashKey, TRUE, <<"h", ",">>), Pair(ExtKey, TRUE, <<>>)>>,
                <<Pair(TsKey, FALSE, <<"1">>)>>,
                <<Pair(TsKey, FALSE, <<"1">>), Pair(NonceKey, TRUE, <<QUOTE>>)>>}}

InitRequest ==
    /\ pc = "call"
    /\ locals = <<>>
    /\ result = [kind |-> "none", value |-> None]
    /\ input = NoInput
    /\ \E m \in Methods, p \in Paths, sc \in Schemes :
          \E n \in 0..MaxHostLen : \E h \in [1..n -> HostChars] :
             \/ /\ request = [environ |-> EmptyDict, method |-> m, path_qs |-> p,
                              host |-> h, scheme |-> sc]
                /\ \E ps \in ParamMaps, sh \in OptionalStrs :
                      args = [params |-> PyDict(ps), server_hash |-> sh]
             \/ /\ \E env \in {EmptyDict} \cup {Environ(a) : a \in ParamHeaders} :
                      request = [environ |-> env, method |-> m, path_qs |-> p,
                                 host |-> h, scheme |-> sc]
                /\ \E sh \in OptionalStrs :
                      args = [params |-> None, server_hash |-> sh]

\* The call get_normalized_request_string(request, params, server_hash).
NormalizeRequest ==
    /\ pc = "call"
    /\ result' = get_normalized_request_string(request, args.params, args.server_hash)
    /\ pc' = "done"
    /\ UNCHANGED <<request, args, locals, input>>

NextRequest == NormalizeRequest

SpecRequest == InitRequest /\ [][NextRequest]_vars

(***************************************************************************)
(* get_normalized_payload_string                                           *)
(***************************************************************************)
\* ContentType without the strip().
ContentType_NotStripped(req) == Lower(Split(req.content_type, ";")[1])

\* request.content_type.split(';')[0].strip().lower()
ContentType(req) == Lower(Strip(Split(req.content_type, ";")[1]))

\* get_normalized_payload_string(request)
get_normalized_payload_string(req) ==
    IF req.text = <<>> THEN Return(None)
    ELSE Return(PyStr(Join(<<PayloadTag, ContentType(req), req.text, <<>>>>, NL)))

MaxTypeLen == 4

MaxTextLen == 2

TypeChars == {"a", "B", ";", " "}

TextChars == {"x", "Y", "\n"}

InitPayload ==
    /\ pc = "call"
    /\ locals = <<>>
    /\ result = [kind |-> "none", value |-> None]
    /\ input = NoInput
    /\ args = <<>>
    /\ \E n \in 0..MaxTypeLen, k \in 0..MaxTextLen :
          \E ct \in [1..n -> TypeChars], t \in [1..k -> TextChars] :
             request = [content_type |-> ct, text |-> t]

\* The call get_normalized_payload_string(request).
NormalizePayload ==
    /\ pc = "call"
    /\ result' = get_normalized_payload_string(request)
    /\ pc' = "done"
    /\ UNCHANGED <<request, args, locals, input>>

NextPayload == NormalizePayload

SpecPayload == InitPayload /\ [][NextPayload]_vars

(***************************************************************************)
(* strings_differ, one step of its loop at a time.                         *)
(***************************************************************************)
PyBool(b) == [type |-> "bool", v |-> b]

\* ord(c), for the letters and digits.
Ord(c) ==
    IF c \in LowerLetters THEN 96 + PlaceIn(LowerAlphabet, c)
    ELSE IF c \in UpperLetters THEN 64 + PlaceIn(UpperAlphabet, c)
    ELSE 47 + PlaceIn(DigitAlphabet, c)

\* a ^ b on integers >= 0.
RECURSIVE Xor(_, _)
Xor(a, b) ==
    IF a = 0 /\ b = 0 THEN 0
    ELSE (((a % 2) + (b % 2)) % 2) + (2 * Xor(a \div 2, b \div 2))

\* A loop that also stops at the first pair that differs.
LoopExhausted_StopsAtMismatch(i, invalid_bits, string1, string2) ==
    i = Len(string1) \/ i = Len(string2) \/ invalid_bits # 0

\* zip(string1, string2) has no pair left after i of them.
LoopExhausted(i, invalid_bits, string1, string2) ==
    i = Len(string1) \/ i = Len(string2)

MaxStrLen == 3

DifferChars == {"a", "b", "A"}

\* locals.i counts the pairs the loop has taken from zip.
InitDiffer ==
    /\ pc = "call"
    /\ locals = [i |-> 0, invalid_bits |-> 0]
    /\ result = [kind |-> "none", value |-> None]
    /\ input = NoInput
    /\ request = <<>>
    /\ \E n, k \in 0..MaxStrLen :
          \E a \in [1..n -> DifferChars], b \in [1..k -> DifferChars] :
             args = [string1 |-> a, string2 |-> b]

\* if len(string1) != len(string2): return True; invalid_bits = 0
DifferEnter ==
    /\ pc = "call"
    /\ IF Len(args.string1) # Len(args.string2)
       THEN result' = Return(PyBool(TRUE)) /\ pc' = "done" /\ UNCHANGED locals
       ELSE /\ locals' = [i |-> 0, invalid_bits |-> 0]
            /\ pc' = "loop"
            /\ UNCHANGED result
    /\ UNCHANGED <<request, args, input>>

\* One turn of the loop: invalid_bits += ord(a) ^ ord(b)
DifferStep ==
    /\ pc = "loop"
    /\ ~LoopExhausted(locals.i, locals.invalid_bits, args.string1, args.string2)
    /\ locals' =
           [i |-> locals.i + 1,
            invalid_bits |->
                locals.invalid_bits
                    + Xor(Ord(args.string1[locals.i + 1]),
                          Ord(args.string2[locals.i + 1]))]
    /\ UNCHANGED <<request, args, pc, result, input>>

\* return invalid_bits != 0
DifferReturn ==
    /\ pc = "loop"
    /\ LoopExhausted(locals.i, locals.invalid_bits, args.string1, args.string2)
    /\ result' = Return(PyBool(locals.invalid_bits # 0))
    /\ pc' = "done"
    /\ UNCHANGED <<request, args, locals, input>>

NextDiffer == DifferEnter \/ DifferStep \/ DifferReturn

SpecDiffer == InitDiffer /\ [][NextDiffer]_vars

(***************************************************************************)
(* What the claims about the parser say of a header written pair by pair.  *)
(***************************************************************************)
\* The number of backslashes that stand in a row right before position i.
RECURSIVE BackslashRun(_, _)
BackslashRun(c, i) ==
    IF i > 1 /\ c[i - 1] = BACKSLASH THEN 1 + BackslashRun(c, i - 1) ELSE 0

\* Reading escapes left to right, the character at i is the backslash of
\* a pair \X: it is a backslash, a character follows it, and it is not
\* itself the X of the pair before it.
Escaper(c, i) ==
    c[i] = BACKSLASH /\ i < Len(c) /\ BackslashRun(c, i) % 2 = 0

\* The character at i is the X of a pair \X.
Escaped(c, i) == i > 1 /\ Escaper(c, i - 1)

QuotesEscaped(c) == \A i \in 1..Len(c) : c[i] = QUOTE => Escaped(c, i)

\* c with its backslash escapes undone.
RECURSIVE UndoneFrom(_, _)
UndoneFrom(c, i) ==
    IF i > Len(c) THEN <<>>
    ELSE (IF Escaper(c, i) THEN <<>> ELSE <<c[i]>>) \o UndoneFrom(c, i + 1)

\* The value of a pair of the header as the mapping should hold it.
Meant(p) == IF p.quoted THEN UndoneFrom(p.text, 1) ELSE p.text

\* A pair of the grammar: a token, "", or a quoted string whose quotes are
\* all escaped and whose closing quote does not follow a backslash.
WellFormedPair(p) ==
    /\ p.key # <<>>
    /\ AllIn(p.key, TokenChars)
    /\ IF p.quoted
       THEN \/ p.text = <<>>
            \/ QuotesEscaped(p.text) /\ p.text[Len(p.text)] # BACKSLASH
       ELSE p.text # <<>> /\ AllIn(p.text, TokenChars)

FromPairs == input.kind = "pairs"

AllWellFormed == \A i \in 1..Len(input.pairs) : WellFormedPair(input.pairs[i])

KeysOf(ps) == {ps[i].key : i \in 1..Len(ps)}

\* The pair at i is the last of its key.
LastOfKey(ps, i) == \A j \in (i + 1)..Len(ps) : ps[j].key # ps[i].key

ReturnedDict == result.kind = "return" /\ result.value.type = "dict"

\* The call returned the mapping it parsed: a default has no scheme entry.
Accepted == ReturnedDict /\ SchemeKey \in DOMAIN result.value.v

\* C1: a header of well-formed pairs parses to the mapping that holds the
\* scheme entry and exactly the keys of the pairs, each key mapped to the
\* value of its (last) pair with the quotes removed and the escapes undone;
\* a comma inside a quoted value neither splits a pair nor merges two.
C1_WellFormedPairsParsed ==
    (pc = "done" /\ FromPairs /\ AllWellFormed) =>
        /\ ReturnedDict
        /\ LET d == result.value.v
               ps == input.pairs
           IN  /\ DOMAIN d = {SchemeKey} \cup KeysOf(ps)
               /\ \A i \in 1..Len(ps) :
                     LastOfKey(ps, i) => d[ps[i].key] = Meant(ps[i])
               /\ SchemeKey \notin KeysOf(ps) => d[SchemeKey] = input.scheme

\* C1 witness: two well-formed pairs, one of them quoted with a comma and
\* an escaped quote in it, have been parsed into a mapping of three entries.
C1_Witness ==
    /\ pc = "done"
    /\ FromPairs
    /\ AllWellFormed
    /\ Len(input.pairs) = 2
    /\ \E i \in 1..2 :
          /\ input.pairs[i].quoted
          /\ \E j, k \in 1..Len(input.pairs[i].text) :
                input.pairs[i].text[j] = "," /\ input.pairs[i].text[k] = QUOTE
    /\ ReturnedDict
    /\ Cardinality(DOMAIN result.value.v) = 3

\* C2: called without a default, the parser raises ValueError whenever a
\* quoted value of the header holds a quote that is not the escaped
\* character of a backslash pair, escapes being read left to right.
C2_UnescapedQuoteRaises ==
    (/\ pc = "done"
     /\ FromPairs
     /\ args.default = <<>>
     /\ \E i \in 1..Len(input.pairs) :
           input.pairs[i].quoted /\ ~QuotesEscaped(input.pairs[i].text))
        => Raised(result, "ValueError")

Header == request.environ[HTTP_AUTHORIZATION].v

HeaderAbsent == HTTP_AUTHORIZATION \notin DOMAIN request.environ

\* The header is a scheme token and nothing else.
SchemeOnly ==
    /\ ~HeaderAbsent
    /\ Header # <<>>
    /\ AllIn(Header, TokenChars)

Fallback ==
    IF args.default = <<>> THEN Raise("ValueError") ELSE Return(args.default[1])

\* C3: the call falls back (raises ValueError without a default, returns
\* the default with one) when the header is absent or a pair of it breaks
\* the grammar or the quoting rules, and returns the parsed mapping,
\* whatever the default, when the header is well-formed.
C3_FallbackExactlyWhenMissingOrMalformed ==
    pc = "done" =>
        /\ (HeaderAbsent \/ (FromPairs /\ ~AllWellFormed)) => result = Fallback
        /\ (SchemeOnly \/ (FromPairs /\ AllWellFormed)) => Accepted

\* C4: a header that is a scheme token alone is valid: the call raises
\* nothing and returns the mapping that holds only the scheme entry.
C4_SchemeOnlyHeaderParsed ==
    (pc = "done" /\ SchemeOnly) =>
        result = Return(PyDict(DictSet(EmptyDict, SchemeKey, Header)))

\* C9: a mapping M the parser returned, written back as a header and
\* parsed again, gives a mapping equal to M.
C9_RoundTrip == pc = "reparsed" => result = Return(PyDict(locals.M))

\* C10: the mapping of an accepted header holds the scheme token under
\* `scheme`, never replaced by a parameter, and every parameter key maps to
\* the unescaped value of its last occurrence.
C10_SchemeKeptLastWins ==
    (pc = "done" /\ FromPairs /\ Accepted) =>
        LET d == result.value.v
            ps == input.pairs
        IN  /\ d[SchemeKey] = input.scheme
            /\ \A i \in 1..Len(ps) :
                  (ps[i].key # SchemeKey /\ LastOfKey(ps, i)) =>
                      (ps[i].key \in DOMAIN d /\ d[ps[i].key] = Meant(ps[i]))

(***************************************************************************)
(* What the claims say of the two canonical strings.                       *)
(***************************************************************************)
Line(x) == x \o NL

\* The (host, port) pairs a host and scheme can be read as: the host cut at
\* one of its colons, or the whole host with the port of http or of https.
HostPortReadings(req) ==
    {<<Lower(Slice(req.host, 1, i - 1)), Slice(req.host, i + 1, Len(req.host))>> :
        i \in {j \in 1..Len(req.host) : req.host[j] = ":"}}
    \cup (IF req.scheme = Http THEN {<<Lower(req.host), Port80>>} ELSE {})
    \cup (IF req.scheme = Https THEN {<<Lower(req.host), Port443>>} ELSE {})

ParamsGiven ==
    /\ ~IsNone(args.params)
    /\ TsKey \in DOMAIN args.params.v
    /\ NonceKey \in DOMAIN args.params.v

\* C5: for a parameter map with ts and nonce the string is the tag, ts,
\* nonce, the uppercased method, the path and query as they are, the
\* lowercased host, the port, the hash and ext, each followed by a line
\* break; the hash is the server's whenever one is given, the empty one too,
\* else the hash parameter or ""; ext is the parameter or "".  The call
\* returns no string only for a scheme without a default port and a host
\* without a colon.
C5_RequestStringLayout ==
    (pc = "done" /\ ParamsGiven) =>
        LET ps == args.params.v
            hash == IF ~IsNone(args.server_hash) THEN args.server_hash.v
                    ELSE IF HashKey \in DOMAIN ps THEN ps[HashKey] ELSE <<>>
            ext == IF ExtKey \in DOMAIN ps THEN ps[ExtKey] ELSE <<>>
        IN  IF result.kind = "return"
            THEN \E hp \in HostPortReadings(request) :
                    result.value =
                        PyStr(Line(HeaderTag) \o Line(ps[TsKey]) \o Line(ps[NonceKey])
                              \o Line(Upper(request.method)) \o Line(request.path_qs)
                              \o Line(hp[1]) \o Line(hp[2])
                              \o Line(hash) \o Line(ext))
            ELSE /\ request.scheme \notin {Http, Https}
                 /\ \A j \in 1..Len(request.host) : request.host[j] # ":"

\* C5 witness: a string was returned for a call with an empty server hash,
\* a hash parameter that is not empty, no ext and a lowercase method.
C5_Witness ==
    /\ pc = "done"
    /\ ParamsGiven
    /\ result.kind = "return"
    /\ args.server_hash = PyStr(<<>>)
    /\ HashKey \in DOMAIN args.params.v
    /\ args.params.v[HashKey] # <<>>
    /\ ExtKey \notin DOMAIN args.params.v
    /\ request.method = <<"g", "e", "t">>

\* The lines of the returned string.
Fields == Split(result.value.v, "\n")

\* The host ends in a colon and at least one decimal digit after it.
PortSuffixAt(h, i) ==
    /\ h[i] = ":"
    /\ i < Len(h)
    /\ \A j \in (i + 1)..Len(h) : h[j] \in Digits

\* C6: a host that ends in ":" and decimal digits gives those digits as the
\* port and the lowercased part before them as the host, whatever the
\* scheme; any other host gives the whole lowercased host and port 80 for
\* http, 443 for https, and a ValueError for every other scheme.
C6_PortDerivation ==
    (pc = "done" /\ ~Raised(result, "KeyError")) =>
        LET h == request.host
        IN  IF \E i \in 1..Len(h) : PortSuffixAt(h, i)
            THEN /\ result.kind = "return"
                 /\ \E i \in 1..Len(h) :
                       /\ PortSuffixAt(h, i)
                       /\ Fields[6] = Lower(Slice(h, 1, i - 1))
                       /\ Fields[7] = Slice(h, i + 1, Len(h))
            ELSE IF request.scheme \in {Http, Https}
                 THEN /\ result.kind = "return"
                      /\ Fields[6] = Lower(h)
                      /\ Fields[7] = (IF request.scheme = Http THEN Port80 ELSE Port443)
                 ELSE Raised(result, "ValueError")

\* C7: the payload string is None exactly for an empty body; for any other
\* body it is the tag, the content type and the body as it is, each
\* followed by a line break, the content type being the header value up to
\* its first ";" without the whitespace around it and in lowercase.
C7_PayloadString ==
    pc = "done" =>
        IF request.text = <<>> THEN result = Return(None)
        ELSE LET ct == request.content_type
                 cut == Slice(ct, 1, Find(ct, ";", 1) - 1)
             IN  \E i \in 0..Len(cut), j \in 0..Len(cut) :
                    /\ i <= j
                    /\ AllIn(Slice(cut, 1, i), Whitespace)
                    /\ AllIn(Slice(cut, j + 1, Len(cut)), Whitespace)
                    /\ i < j => (cut[i + 1] \notin Whitespace /\ cut[j] \notin Whitespace)
                    /\ result =
                           Return(PyStr(Line(PayloadTag)
                               \o Line([k \in 1..(j - i) |-> LowerChar(cut[i + k])])
                               \o Line(request.text)))

\* C7 witness: a payload string was built for a body with a line break in
\* it and a content type with a space, a capital and a parameter.
C7_Witness ==
    /\ pc = "done"
    /\ result.kind = "return"
    /\ result.value.type = "str"
    /\ request.text = <<"x", "\n">>
    /\ request.content_type = <<" ", "B", ";", "a">>

(***************************************************************************)
(* What the claim says of strings_differ.                                  *)
(***************************************************************************)
\* C8: strings_differ returns whether the strings differ; for strings of
\* different length it takes no pair, for strings of the same length n it
\* takes all n pairs before it returns, wherever they differ, and the
\* accumulator is then nonzero exactly when some pair differs.
C8_DiffersWithoutShortCircuit ==
    pc = "done" =>
        LET a == args.string1
            b == args.string2
        IN  /\ result = Return(PyBool(a # b))
            /\ Len(a) # Len(b) => locals.i = 0
            /\ Len(a) = Len(b) =>
                  /\ locals.i = Len(a)
                  /\ (locals.invalid_bits # 0) <=> (\E k \in 1..Len(a) : a[k] # b[k])

\* C8 witness: two strings of length 3 that differ at the first place and
\* agree at the last were found to differ after three pairs.
C8_Witness ==
    /\ pc = "done"
    /\ Len(args.string1) = 3
    /\ Len(args.string2) = 3
    /\ args.string1[1] # args.string2[1]
    /\ args.string1[3] = args.string2[3]
    /\ locals.i = 3
    /\ result = Return(PyBool(TRUE))

====
